---- MODULE Spec2Model ----
(***************************************************************************)
(* Model of the HMO chatbot: the FastAPI backend (main.py, openai_utils.py, *)
(* retriever.py, initialize.py, config*.py, shared/monitoring.py) and the  *)
(* Streamlit frontend session (frontend/app.py).                           *)
(*                                                                         *)
(* Representation choices:                                                 *)
(*  - an embedding is a pair of integers;                                  *)
(*  - a similarity score is the cosine in thousandths (SCALE), truncated   *)
(*    toward zero, or NaN for the 0/0 numpy computes for a zero vector;    *)
(*  - a text (message content, answer) is a sequence of tokens, so that    *)
(*    substring search, split and the JSON regex of the frontend are       *)
(*    operations on it; Python's None is the one-token text None;          *)
(*  - a JSON document (function_call.arguments, a JSON block in a text)    *)
(*    is its syntax: malformed, an array, or an object given as the        *)
(*    sequence of its key/value members; json_loads turns it into a value. *)
(***************************************************************************)
EXTENDS Integers, Sequences, FiniteSets, TLC

\* ------------------------------------------------------------------ bounds
MaxDocs == 2
MaxK == 2
MaxCalls == 1
MaxHistory == 4
MaxSessionDocs == 1
MaxTasks == 2
MaxStartLines == 1
MaxLines == 2
SCALE == 1000

\* ------------------------------------------------------- program constants
\* retriever.py: MIN_SIMILARITY_THRESHOLD = 0.7, in thousandths
MIN_SIMILARITY_THRESHOLD == 700
\* config.py ChatConfig.default: similarity_threshold=0.75, in thousandths
similarity_threshold == 750
\* config.py ChatConfig.default: top_k_documents=2
top_k_documents == 2

\* ------------------------------------------------------------------- texts
Word(s) == [t |-> "word", v |-> s]
Str(s) == <<Word(s)>>
None == <<[t |-> "None", v |-> "None"]>>
EmptyStr == <<>>
Truthy(text) == text # None /\ text # EmptyStr

NO_MATCH_MESSAGE == Str("NO_MATCH_MESSAGE")
EXTRACTION_ERROR_MESSAGE == Str("EXTRACTION_ERROR_MESSAGE")
SUCCESS_MESSAGE_EN == Str("SUCCESS_MESSAGE_EN")
SUCCESS_MESSAGE_HE == Str("SUCCESS_MESSAGE_HE")

\* ------------------------------------------------------------- exceptions
Raise(e) == [kind |-> "raise", error |-> e]
Return(v) == [kind |-> "return", value |-> v]
Raised(o) == o.kind = "raise"

\* --------------------------------------------------------------- retriever
NaN == SCALE + SCALE
IsNaN(x) == x = NaN

Dot(a, b) == a[1] * b[1] + a[2] * b[2]

RECURSIVE ISqrtIn(_, _, _)
\* the largest s in lo..hi with s*s <= n (lo*lo <= n assumed)
ISqrtIn(n, lo, hi) ==
    IF lo >= hi THEN lo
    ELSE LET mid == (lo + hi + 1) \div 2
         IN IF mid * mid <= n THEN ISqrtIn(n, mid, hi) ELSE ISqrtIn(n, lo, mid - 1)

Sign(x) == IF x < 0 THEN 0 - 1 ELSE 1

\* np.dot(a, b) / (np.linalg.norm(a) * np.linalg.norm(b)); no zero-norm guard
cosine_similarity(a, b) ==
    LET d == Dot(a, b)
        n == Dot(a, a) * Dot(b, b)
    IN IF n = 0 THEN NaN
       ELSE Sign(d) * ISqrtIn((SCALE * SCALE * d * d) \div n, 0, SCALE)

\* float comparisons: every comparison with NaN is false
Ge(x, y) == ~IsNaN(x) /\ ~IsNaN(y) /\ x >= y
Gt(x, y) == ~IsNaN(x) /\ ~IsNaN(y) /\ x > y

RECURSIVE PyMaxFrom(_, _, _)
PyMaxFrom(s, i, cur) ==
    IF i > Len(s) THEN cur
    ELSE PyMaxFrom(s, i + 1, IF Gt(s[i], cur) THEN s[i] ELSE cur)

\* Python's max() over a non-empty list: keeps the first item unless a later one is greater
PyMax(s) == PyMaxFrom(s, 2, s[1])

\* s[:k]
Take(s, k) == SubSeq(s, 1, IF k < Len(s) THEN k ELSE Len(s))

\* mutant: an unstable sort, which puts a passage before those of equal score
InsertDesc_TiesReversed(sorted, x) ==
    LET pos == Cardinality({i \in DOMAIN sorted : Gt(sorted[i].score, x.score)})
    IN SubSeq(sorted, 1, pos) \o <<x>> \o SubSeq(sorted, pos + 1, Len(sorted))

\* list.insert position for a stable descending sort: after every item whose score is >= x's
InsertDesc(sorted, x) ==
    LET pos == Cardinality({i \in DOMAIN sorted : ~Gt(x.score, sorted[i].score)})
    IN SubSeq(sorted, 1, pos) \o <<x>> \o SubSeq(sorted, pos + 1, Len(sorted))

RECURSIVE SortedDescFrom(_, _, _)
SortedDescFrom(s, i, acc) ==
    IF i > Len(s) THEN acc ELSE SortedDescFrom(s, i + 1, InsertDesc(acc, s[i]))

\* sorted(docs, key=score, reverse=True): stable, equal scores keep their order
SortedDesc(s) == SortedDescFrom(s, 1, <<>>)

\* a record of the store, as json.loads gives it: the keys it has, and its
\* embedding: a vector of numbers, or something that is not one
AllFields == {"domain", "text", "embedding"}
Record(has, d, e, numeric) ==
    [has |-> has, domain |-> d, text |-> Str(d), embedding |-> e, numeric |-> numeric]

\* what scoring the record against query_vec raises: doc["..."] of a missing
\* key, np.dot with a non-numeric array, np.dot of vectors of different lengths
ScoreError(query_vec, doc) ==
    IF doc.has # AllFields THEN "KeyError"
    ELSE IF ~doc.numeric THEN "TypeError"
    ELSE IF Len(doc.embedding) # Len(query_vec) THEN "ValueError"
    ELSE "none"

ScoredDocs(query_vec, docs) ==
    [i \in DOMAIN docs |->
        [domain |-> docs[i].domain, text |-> docs[i].text,
         score |-> cosine_similarity(query_vec, docs[i].embedding)]]

Scores(scored) == [i \in DOMAIN scored |-> scored[i].score]
Domains(scored) == [i \in DOMAIN scored |-> scored[i].domain]

Threshold == MIN_SIMILARITY_THRESHOLD

RelevantDocs(scored) == SelectSeq(scored, LAMBDA d : Ge(d.score, Threshold))

NoMatchResult == <<[domain |-> "no_match", text |-> NO_MATCH_MESSAGE, score |-> 0]>>

TopKResult(relevant, k) == Take(SortedDesc(relevant), k)

\* -------------------------------------------------------------- monitoring
RECURSIVE GCD(_, _)
GCD(a, b) == IF b = 0 THEN a ELSE GCD(b, a % b)
Abs(x) == IF x < 0 THEN 0 - x ELSE x

\* a float of the metrics as an exact fraction of thousandths; 0/0 is NaN
Frac(n, d) == LET g == GCD(Abs(n), Abs(d)) IN [num |-> n \div g, den |-> d \div g]
FracNaN == [num |-> 0, den |-> 0]
FracIsNaN(f) == f.den = 0

\* ChatbotMonitoring.__init__
InitialMetrics ==
    [llm_calls |-> [success |-> 0, failed |-> 0, total_time_ms |-> 0, average_time_ms |-> 0],
     rag_queries |-> [total |-> 0, no_matches |-> 0, average_similarity |-> Frac(0, 1)],
     conversation |-> [collection_phase |-> [success |-> 0, failed |-> 0],
                       qa_phase |-> [success |-> 0, failed |-> 0],
                       language_stats |-> [he |-> 0, en |-> 0]]]

\* (prev_avg * (n - 1) + similarity_score) / n
RunningAverage(prev_avg, n, similarity_score) ==
    IF FracIsNaN(prev_avg) \/ IsNaN(similarity_score) THEN FracNaN
    ELSE Frac(prev_avg.num * (n - 1) + similarity_score * prev_avg.den, prev_avg.den * n)

log_rag_query(m, similarity_score, found_match) ==
    LET rq == m.rag_queries
        n == rq.total + 1
    IN [m EXCEPT !.rag_queries =
            [total |-> n,
             no_matches |-> IF found_match THEN rq.no_matches ELSE rq.no_matches + 1,
             average_similarity |-> RunningAverage(rq.average_similarity, n, similarity_score)]]

\* log_conversation(phase, success, language) on a metrics dict
log_conversation(m, phase, success, language) ==
    LET status == IF success THEN "success" ELSE "failed"
        pkey == IF phase = "qa" THEN "qa_phase" ELSE "collection_phase"
    IN [m EXCEPT !.conversation[pkey][status] = @ + 1,
                 !.conversation.language_stats[language] = @ + 1]

\* the record of an operation that made no retrieve_top_k call
NoRag == [k |-> 0, embed |-> [ok |-> FALSE, vec |-> <<0, 0>>], docs |-> <<>>,
          outcome |-> Raise("none"), logged |-> <<>>, calls |-> 0]

\* ------------------------------------------------- retrieve_top_k, as a step
\* embed: the embedding capability's answer, [ok, vec]; docs: embedded_docs;
\* m: monitoring.metrics.  Gives the call's outcome, the metrics after it and
\* the observations it logged.
retrieve_top_k(embed, k, docs, m) ==
    IF ~embed.ok THEN
        [outcome |-> Raise("EmbeddingError"), metrics |-> m, logged |-> <<>>]
    ELSE IF \E i \in DOMAIN docs : ScoreError(embed.vec, docs[i]) # "none" THEN
        \* the comprehension raises at the first record it cannot score
        LET first == CHOOSE i \in DOMAIN docs :
                        /\ ScoreError(embed.vec, docs[i]) # "none"
                        /\ \A j \in 1..(i - 1) : ScoreError(embed.vec, docs[j]) = "none"
        IN [outcome |-> Raise(ScoreError(embed.vec, docs[first])),
            metrics |-> m, logged |-> <<>>]
    ELSE LET scored == ScoredDocs(embed.vec, docs)
         IN IF Len(scored) = 0 THEN
                \* max([]) raises ValueError before anything is logged
                [outcome |-> Raise("ValueError"), metrics |-> m, logged |-> <<>>]
            ELSE LET max_score == PyMax(Scores(scored))
                     relevant == RelevantDocs(scored)
                     found == Len(relevant) > 0
                 IN [outcome |-> Return(IF found THEN TopKResult(relevant, k)
                                        ELSE NoMatchResult),
                     metrics |-> log_rag_query(m, max_score, found),
                     logged |-> <<[similarity_score |-> max_score,
                                   found_match |-> found,
                                   matched_domains |-> Domains(Take(relevant, k))]>>]

\* -------------------------------------------------------------------- JSON
Malformed == [syntax |-> "malformed", members |-> <<>>]
JsonArray == [syntax |-> "array", members |-> <<>>]
JsonObject(members) == [syntax |-> "object", members |-> members]

\* the dict a JSON object's members build: a repeated key keeps its last value
DictOf(members) ==
    [key \in {members[i][1] : i \in DOMAIN members} |->
        LET last == CHOOSE i \in DOMAIN members :
                        /\ members[i][1] = key
                        /\ \A j \in DOMAIN members : members[j][1] = key => j <= i
        IN members[last][2]]

\* json.loads: JSONDecodeError on malformed text, else the Python value
json_loads(raw) ==
    CASE raw.syntax = "malformed" -> Raise("JSONDecodeError")
      [] raw.syntax = "array" -> Return([type |-> "list", dict |-> <<>>])
      [] OTHER -> Return([type |-> "dict", dict |-> DictOf(raw.members)])

\* dict.get(key, default)
DictGet(d, key, default) == IF key \in DOMAIN d THEN d[key] ELSE default

\* ---------------------------------------------- function_definitions.py
RequiredFields ==
    {"name", "id", "gender", "age", "hmo", "card", "tier", "preferred_language"}
IsNineDigits(v) == Len(v) = 9 /\ \A i \in DOMAIN v : v[i] \in 0..9

\* the parameters schema of complete_data_collection
SchemaValid(value) ==
    /\ value.type = "dict"
    /\ DOMAIN value.dict = RequiredFields
    /\ IsNineDigits(value.dict["id"])
    /\ IsNineDigits(value.dict["card"])
    /\ value.dict["gender"] \in {"male", "female", "other"}
    /\ value.dict["age"] \in 0..120
    /\ value.dict["hmo"] \in {"maccabi", "meuhedet", "clalit"}
    /\ value.dict["tier"] \in {"zahav", "kesef", "arad"}
    /\ value.dict["preferred_language"] \in {"he", "en"}

\* ------------------------------------------------------- openai_utils.py
\* mutant: the two confirmation strings swapped
generate_success_message_Swapped(language) ==
    IF language = "en" THEN SUCCESS_MESSAGE_HE ELSE SUCCESS_MESSAGE_EN

generate_success_message(language) ==
    IF language = "en" THEN SUCCESS_MESSAGE_EN ELSE SUCCESS_MESSAGE_HE

CompletedAnswer(content, user_info) ==
    IF Truthy(content) THEN content
    ELSE generate_success_message(DictGet(user_info, "preferred_language", "he"))

\* The steps below give [handler, outcome, metrics, rag, completion_calls, embedding_calls].
TurnStep(handler, outcome, m, r, completions, embeddings) ==
    [handler |-> handler, outcome |-> outcome, metrics |-> m, rag |-> r,
     completion_calls |-> completions, embedding_calls |-> embeddings]

\* the body of the function_call branch: the try around json.loads
FunctionCallBranch(message) ==
    LET parsed == json_loads(message.function_call.arguments)
    IN IF Raised(parsed) THEN
           \* except json.JSONDecodeError
           Return([answer |-> EXTRACTION_ERROR_MESSAGE, phase_transition |-> FALSE])
       ELSE IF parsed.value.type # "dict" THEN
           \* user_info.keys() on a list: AttributeError, not caught here
           Raise("AttributeError")
       ELSE Return([answer |-> CompletedAnswer(message.content, parsed.value.dict),
                    phase_transition |-> TRUE,
                    user_info |-> parsed.value.dict])

\* mutant: a failed completion call is made a second time and its answer returned
handle_collection_phase_Retry(req, llm, m, r) ==
    IF ~llm.ok
    THEN TurnStep("collection",
                  Return([answer |-> Str("reply"), phase_transition |-> FALSE]),
                  m, NoRag, 2, 0)
    ELSE IF /\ llm.function_call.present
            /\ llm.function_call.name = "complete_data_collection"
         THEN TurnStep("collection", FunctionCallBranch(llm), m, NoRag, 1, 0)
         ELSE TurnStep("collection",
                       Return([answer |-> llm.content, phase_transition |-> FALSE]),
                       m, NoRag, 1, 0)

handle_collection_phase(req, llm, m, r) ==
    IF ~llm.ok THEN TurnStep("collection", Raise("LLMCallError"), m, NoRag, 1, 0)
    ELSE IF /\ llm.function_call.present
            /\ llm.function_call.name = "complete_data_collection"
         THEN TurnStep("collection", FunctionCallBranch(llm), m, NoRag, 1, 0)
         ELSE TurnStep("collection",
                       Return([answer |-> llm.content, phase_transition |-> FALSE]),
                       m, NoRag, 1, 0)

\* mutant: no short-circuit, the completion is requested on a no-match too
handle_qa_phase_NoShortCircuit(req, embed, llm, docs, m, r) ==
    LET got == retrieve_top_k(embed, top_k_documents, docs, m)
        newrag == [k |-> top_k_documents, embed |-> embed, docs |-> docs,
                   outcome |-> got.outcome, logged |-> got.logged, calls |-> 1]
    IN IF Raised(got.outcome) THEN
           TurnStep("qa", got.outcome, got.metrics, newrag, 0, 1)
       ELSE IF ~llm.ok THEN
           TurnStep("qa", Raise("LLMCallError"), got.metrics, newrag, 1, 1)
       ELSE TurnStep("qa",
                     Return([answer |-> llm.content, phase_transition |-> FALSE]),
                     got.metrics, newrag, 1, 1)

handle_qa_phase(req, embed, llm, docs, m, r) ==
    LET got == retrieve_top_k(embed, top_k_documents, docs, m)
        newrag == [k |-> top_k_documents, embed |-> embed, docs |-> docs,
                   outcome |-> got.outcome, logged |-> got.logged, calls |-> 1]
    IN IF Raised(got.outcome) THEN
           TurnStep("qa", got.outcome, got.metrics, newrag, 0, 1)
       ELSE IF got.outcome.value[1].domain = "no_match" THEN
           TurnStep("qa", Return([answer |-> got.outcome.value[1].text]),
                    got.metrics, newrag, 0, 1)
       ELSE IF ~llm.ok THEN
           TurnStep("qa", Raise("LLMCallError"), got.metrics, newrag, 1, 1)
       ELSE TurnStep("qa",
                     Return([answer |-> llm.content, phase_transition |-> FALSE]),
                     got.metrics, newrag, 1, 1)

\* mutant: the phase is not looked at, every turn runs the collection logic
get_response_from_llm_NoDispatch(req, embed, llm, docs, m, r) ==
    handle_collection_phase(req, llm, m, r)

\* the except clause logs and re-raises: the handler's outcome is the outcome
get_response_from_llm(req, embed, llm, docs, m, r) ==
    IF req.phase = "collection"
    THEN handle_collection_phase(req, llm, m, r)
    ELSE handle_qa_phase(req, embed, llm, docs, m, r)

\* ----------------------------------------------------------- models.py
\* ChatResponse(**result): answer must be a str; the other two fields default
ChatResponse(result) ==
    IF result.answer = None THEN Raise("ValidationError")
    ELSE Return([answer |-> result.answer,
                 phase_transition |-> IF "phase_transition" \in DOMAIN result
                                      THEN result.phase_transition ELSE FALSE,
                 user_info_set |-> "user_info" \in DOMAIN result,
                 user_info |-> IF "user_info" \in DOMAIN result
                               THEN result.user_info ELSE <<>>])

\* -------------------------------------------------------------- main.py
\* `await x` of a value that is no awaitable: get_response_from_llm is a plain
\* def and what it returns is a dict
Await(value) == Raise("TypeError")

Http(status, body) == [status |-> status, body |-> body]
Http500 == Http(500, [answer |-> None, phase_transition |-> FALSE,
                      user_info_set |-> FALSE, user_info |-> <<>>])

\* POST /ask, given the outcome of the get_response_from_llm(req) call
ask(outcome) ==
    IF Raised(outcome) THEN Http500
    ELSE LET result == Await(outcome.value)
         IN IF Raised(result) THEN Http500
            ELSE LET response == ChatResponse(result.value)
                 IN IF Raised(response) THEN Http500
                    ELSE Http(200, response.value)

\* ------------------------------------------------------- frontend/app.py
\* tokens of a text: words, the transition marker, a {...} block (named; its
\* JSON text is JsonDocument of the name)
Marker == [t |-> "marker", v |-> "PHASE:COLLECTION_COMPLETE"]
JsonBlock(name) == [t |-> "json", v |-> name]
IsJsonBlock(tok) == tok.t = "json"

Digits9 == <<1, 2, 3, 4, 5, 6, 7, 8, 9>>
Digits10 == <<1, 2, 3, 4, 5, 6, 7, 8, 9, 0>>
ProfileMembers(id, lang) ==
    << <<"name", "Dana">>, <<"id", id>>, <<"gender", "female">>, <<"age", 30>>,
       <<"hmo", "maccabi">>, <<"card", Digits9>>, <<"tier", "zahav">>,
       <<"preferred_language", lang>> >>
JsonDocument(name) ==
    IF name = "profile" THEN JsonObject(ProfileMembers(Digits9, "he")) ELSE Malformed

\* init_session_state
InitialSession ==
    [user_info |-> <<>>, history |-> <<>>, current_phase |-> "collection",
     initialized |-> FALSE]

Contains(text, tok) == \E i \in DOMAIN text : text[i] = tok
\* position of the first marker at or after from, Len + 1 when there is none
FirstMarker(text, from) ==
    LET hits == {i \in DOMAIN text : i >= from /\ text[i] = Marker}
    IN IF hits = {} THEN Len(text) + 1
       ELSE CHOOSE i \in hits : \A j \in hits : i <= j
\* positions of the first and the last brace block, 0 when there is none
FirstJson(text) ==
    LET hits == {i \in DOMAIN text : IsJsonBlock(text[i])}
    IN IF hits = {} THEN 0 ELSE CHOOSE i \in hits : \A j \in hits : i <= j
LastJson(text) ==
    LET hits == {i \in DOMAIN text : IsJsonBlock(text[i])}
    IN IF hits = {} THEN 0 ELSE CHOOSE i \in hits : \A j \in hits : j <= i
\* answer.replace(marker, "").replace(block, "")
Without(text, block) == SelectSeq(text, LAMBDA tok : tok # Marker /\ tok # block)

\* gives the session after it and the text to display
handle_phase_transition(session, answer) ==
    IF ~Contains(answer, Marker) THEN [session |-> session, display |-> answer]
    ELSE
      LET m1 == FirstMarker(answer, 1)
          m2 == FirstMarker(answer, m1 + 1)
          \* answer.split(marker): parts[0], parts[1]
          part0 == SubSeq(answer, 1, m1 - 1)
          part1 == SubSeq(answer, m1 + 1, m2 - 1)
          \* re.search(r'{.*}', parts[1], re.DOTALL): first "{" to last "}"
          b1 == FirstJson(part1)
          b2 == LastJson(part1)
      IN IF b2 = 0 THEN [session |-> session, display |-> answer]
         ELSE
           LET parsed == IF b1 = b2 THEN json_loads(JsonDocument(part1[b1].v))
                         ELSE Raise("JSONDecodeError")
           IN IF Raised(parsed) THEN
                  \* except Exception: st.error, then return answer
                  [session |-> session, display |-> answer]
              ELSE IF session.current_phase # "qa" THEN
                  [session |-> [session EXCEPT !.user_info = parsed.value.dict,
                                               !.current_phase = "qa"],
                   display |-> part0 \o SubSeq(part1, b1 + 1, Len(part1))]
              ELSE [session |-> session,
                    display |-> Without(answer, part1[b1])]

NoneStr == "<None>"
Request(phase, hmo, tier) == [phase |-> phase, hmo |-> hmo, tier |-> tier]

\* prepare_qa_payload / get_phase_payload: the fields of the payload the backend reads
get_phase_payload(session) ==
    IF session.current_phase = "qa"
    THEN Request("qa", DictGet(session.user_info, "hmo", ""),
                 DictGet(session.user_info, "tier", ""))
    ELSE Request("collection", NoneStr, NoneStr)

\* send_to_backend: (result, error) of the HTTP exchange
send_to_backend(http) ==
    IF http.status = 200 THEN [result |-> http.body, error |-> FALSE]
    ELSE [result |-> http.body, error |-> TRUE]

\* handle_bot_response: gives the session and the frontend's metrics after it
handle_bot_response(session, fm, got) ==
    IF got.error THEN
        [session |-> session,
         metrics |-> log_conversation(fm, session.current_phase, FALSE,
                         DictGet(session.user_info, "preferred_language", "he")),
         display |-> None]
    ELSE LET after == handle_phase_transition(session, got.result.answer)
         IN [session |-> [after.session EXCEPT !.history = Append(@, "assistant")],
             metrics |-> log_conversation(fm, after.session.current_phase, TRUE,
                             DictGet(after.session.user_info, "preferred_language", "he")),
             display |-> after.display]

\* ------------------------------------------------------------------ inputs
Doc(d, e) == Record(AllFields, d, e, TRUE)
DocPool ==
    { Doc("dental", <<1, 0>>), Doc("optometry", <<0, 1>>),
      Doc("pregnancy", <<1, 1>>), Doc("workshops", <<0, 0>>) }
QueryVecs == { <<1, 0>>, <<1, 1>>, <<0 - 1, 1>>, <<0, 0>> }

Injective(s) == \A i, j \in DOMAIN s : s[i] = s[j] => i = j
\* the corpora: sequences of distinct passages
Corpora ==
    UNION { {s \in [1..n -> DocPool] : Injective(s)} : n \in 0..MaxDocs }

\* a line of embedded_docs.jsonl: a JSON text of a record, or no JSON at all
Line(record) == [json_ok |-> TRUE, record |-> record]
InvalidJsonLine == [json_ok |-> FALSE, record |-> Record({}, "", <<>>, FALSE)]
\* the file generate_embeddings writes for a corpus
FileOf(docs) == [exists |-> TRUE, lines |-> [i \in DOMAIN docs |-> Line(docs[i])]]
MissingFile == [exists |-> FALSE, lines |-> <<>>]

EmbedAnswers ==
    {[ok |-> FALSE, vec |-> <<0, 0>>]} \cup {[ok |-> TRUE, vec |-> v] : v \in QueryVecs}

\* what the model may put in function_call.arguments
ArgumentTexts ==
    { Malformed, JsonArray,
      JsonObject(ProfileMembers(Digits9, "he")),
      JsonObject(ProfileMembers(Digits9, "en")),
      JsonObject(ProfileMembers(Digits10, "en")),
      JsonObject(SubSeq(ProfileMembers(Digits9, "en"), 1, 7)) }

NoCall == [present |-> FALSE, name |-> "", arguments |-> Malformed]
FunctionCall(name, arguments) == [present |-> TRUE, name |-> name, arguments |-> arguments]
Contents == {None, EmptyStr, Str("reply")}

LLMFailure == [ok |-> FALSE, content |-> None, function_call |-> NoCall]
\* the completion capability's answers to a collection request (functions
\* attached): it fails, answers in free text, or makes a function call, with or
\* without text beside it
CollectionAnswers ==
    {LLMFailure}
    \cup [ok : {TRUE}, content : Contents, function_call : {NoCall}]
    \cup [ok : {TRUE}, content : {None, Str("reply")},
          function_call : {FunctionCall("complete_data_collection", a) : a \in ArgumentTexts}]
    \cup {[ok |-> TRUE, content |-> EmptyStr,
           function_call |-> FunctionCall("complete_data_collection",
                                          JsonObject(ProfileMembers(Digits9, "en")))],
          [ok |-> TRUE, content |-> None,
           function_call |-> FunctionCall("other_function",
                                          JsonObject(ProfileMembers(Digits9, "en")))]}
\* and to a QA request (no functions attached)
QAAnswers ==
    {LLMFailure} \cup [ok : {TRUE}, content : Contents, function_call : {NoCall}]

\* the requests a client posts: a collection turn, a QA turn with the profile's hmo and tier
Requests == {Request("collection", NoneStr, NoneStr), Request("qa", "maccabi", "zahav")}

\* the hosted capabilities' answers during a turn of the given phase
HostedAnswers(phase) ==
    IF phase = "collection"
    THEN [embed : {[ok |-> FALSE, vec |-> <<0, 0>>]}, llm : CollectionAnswers]
    ELSE [embed : EmbedAnswers, llm : QAAnswers]

\* what a server at API_URL may answer: an error, a plain answer, a completed
\* collection as /ask's response model carries it, an answer in the marker protocol
OkBody(answer, transition, has_info, user_info) ==
    [answer |-> answer, phase_transition |-> transition,
     user_info_set |-> has_info, user_info |-> user_info]
HttpResponses ==
    { Http500,
      Http(200, OkBody(Str("reply"), FALSE, FALSE, <<>>)),
      Http(200, OkBody(SUCCESS_MESSAGE_HE, TRUE, TRUE,
                       DictOf(ProfileMembers(Digits9, "he")))),
      Http(200, OkBody(<<Word("done"), Marker, JsonBlock("profile"), Word("welcome")>>,
                       FALSE, FALSE, <<>>)),
      Http(200, OkBody(<<Word("done"), Marker, JsonBlock("broken")>>,
                       FALSE, FALSE, <<>>)) }

\* ------------------------------------------------------------------- state
VARIABLES
    embeddings_file,   \* phase2_data/embedded_docs.jsonl: "missing" or its passages
    server,            \* backend process: "starting", "serving" or "failed"
    embedded_docs,     \* retriever.embedded_docs
    metrics,           \* shared.monitoring.monitoring.metrics of the backend
    rag,               \* the last retrieve_top_k call: inputs, outcome, observations
    turn,              \* the operation's POST /ask: request, hosted answers, outcome, response
    session,           \* the frontend's st.session_state
    fe_metrics,        \* shared.monitoring.monitoring.metrics of the frontend process
    fe,                \* the frontend's last exchange: payload, response, text displayed
    module_metrics,    \* main.py's monitoring.metrics: attribute metrics of the module shared.monitoring
    read,              \* the operation's GET /metrics or GET /metrics/reset and its response
    observed,          \* what happened since the last GET /metrics/reset (or construction)
    tasks,             \* the requests in flight on the backend's event loop, statement by statement
    running,           \* the task whose handler the event loop is running, 0 when none
    heap,              \* the list objects of retriever.py and the one embedded_docs names
    loader,            \* a load_embeddings call, statement by statement
    reader,            \* a retrieve_top_k call, statement by statement
    startup            \* the startup sequence, statement by statement

backend == <<embeddings_file, server, embedded_docs, metrics, rag, turn>>
frontend == <<session, fe_metrics, fe>>
endpoints == <<module_metrics, read, observed>>
concurrent == <<tasks, running>>
storage == <<heap, loader, reader, startup>>
vars == <<embeddings_file, server, embedded_docs, metrics, rag, turn,
          session, fe_metrics, fe, module_metrics, read, observed,
          tasks, running, heap, loader, reader, startup>>

NoTurn ==
    [via |-> "none", req |-> Request("collection", NoneStr, NoneStr),
     llm |-> LLMFailure, handler |-> "none", outcome |-> Raise("none"),
     completion_calls |-> 0, embedding_calls |-> 0, http |-> Http500,
     before |-> InitialMetrics]

NoExchange ==
    [kind |-> "none", payload |-> Request("collection", NoneStr, NoneStr),
     http |-> Http500, display |-> None]

\* the module shared.monitoring defines ChatbotMetrics, ChatbotMonitoring and
\* monitoring; it has no attribute metrics until something assigns one
Unset == [set |-> FALSE, value |-> InitialMetrics]
Bound(value) == [set |-> TRUE, value |-> value]

NoRead == [op |-> "none", status |-> 0, metrics |-> InitialMetrics]

\* nothing observed: no retrieval result, no score recorded
NothingObserved == [rag_results |-> 0, rag_no_match |-> 0, scores |-> <<>>]

\* the observations of one retrieve_top_k call added to o
ObserveRag(o, r) ==
    IF r.calls = 0 \/ Raised(r.outcome) THEN o
    ELSE [o EXCEPT !.rag_results = @ + 1,
                   !.rag_no_match = IF r.outcome.value = NoMatchResult THEN @ + 1 ELSE @,
                   !.scores = @ \o [i \in DOMAIN r.logged |-> r.logged[i].similarity_score]]

\* a request not yet made
Tasks == 1..MaxTasks
NoObservation == [similarity_score |-> 0, found_match |-> FALSE, matched_domains |-> <<>>]
NoTask ==
    [kind |-> "none", pc |-> "idle", embed |-> [ok |-> FALSE, vec |-> <<0, 0>>],
     called |-> FALSE, obs |-> NoObservation, overlapped |-> FALSE,
     tmp |-> 0, prev_avg |-> Frac(0, 1), n |-> 0, response |-> NoRead]

\* embedded_docs = []: one list object, empty, and the global names it
\* versions: the completely loaded stores so far, the last one the latest
EmptyHeap == [lists |-> << <<>> >>, bound |-> 1, versions |-> << <<>> >>]
NoLoader == [pc |-> "idle", target |-> 0, pos |-> 0, error |-> "none",
             previous |-> <<>>]
NoReader == [pc |-> "idle", embed |-> [ok |-> FALSE, vec |-> <<0, 0>>], list |-> 0,
             idx |-> 0, seen |-> <<>>, outcome |-> Raise("none"),
             exhausted |-> FALSE, since |-> 0, overlapped |-> FALSE]
NotStarted == [pc |-> "validate", file_was_missing |-> FALSE, ensured |-> FALSE,
               generated |-> FALSE, loaded |-> FALSE]

\* the state after import, with one of files on disk
InitWith(files) ==
    /\ embeddings_file \in files
    /\ server = "starting"
    /\ embedded_docs = <<>>
    /\ metrics = InitialMetrics
    /\ rag = NoRag
    /\ turn = NoTurn
    /\ session = InitialSession
    /\ fe_metrics = InitialMetrics
    /\ fe = NoExchange
    /\ module_metrics = Unset
    /\ read = NoRead
    /\ observed = NothingObserved
    /\ tasks = [t \in Tasks |-> NoTask]
    /\ running = 0
    /\ heap = EmptyHeap
    /\ loader = NoLoader
    /\ reader = NoReader
    /\ startup = NotStarted

\* no file, or the file generate_embeddings wrote for a corpus
Init == InitWith({MissingFile} \cup {FileOf(docs) : docs \in Corpora})

\* validate_config: the check of config.embeddings_file (the environment's
\* keys, the prompts directory and the numeric ranges are taken to be in order)
validate_config == embeddings_file.exists

\* generate_embeddings: one record per HTML file, written to embedded_docs.jsonl
generate_embeddings ==
    FileOf(<<Doc("optometry", <<0, 1>>), Doc("pregnancy", <<1, 1>>),
             Doc("workshops", <<0, 0>>), Doc("dental", <<1, 0>>)>>)

\* ensure_embeddings: the file after it
ensure_embeddings(file) == IF ~file.exists THEN generate_embeddings ELSE file

\* load_embeddings as a whole: [json.loads(line) for line in f], or the error
load_embeddings(file) ==
    IF ~file.exists THEN Raise("FileNotFoundError")
    ELSE IF \E i \in DOMAIN file.lines : ~file.lines[i].json_ok
         THEN Raise("JSONDecodeError")
         ELSE Return([i \in DOMAIN file.lines |-> file.lines[i].record])

\* the heap after embedded_docs = value: a new list object, and the global names it
Rebind(h, value) ==
    [lists |-> Append(h.lists, value), bound |-> Len(h.lists) + 1,
     versions |-> Append(h.versions, value)]

\* startup_event: validate_config, then initialize_backend (ensure_embeddings,
\* load_embeddings); an exception ends the process before it serves
startup_event ==
    /\ server = "starting"
    /\ LET missing == ~embeddings_file.exists
           ensured == ensure_embeddings(embeddings_file)
           loaded == load_embeddings(ensured)
       IN IF ~validate_config
          THEN /\ server' = "failed"
               /\ startup' = [pc |-> "done", file_was_missing |-> missing,
                              ensured |-> FALSE, generated |-> FALSE, loaded |-> FALSE]
               /\ UNCHANGED <<embeddings_file, embedded_docs, heap>>
          ELSE IF Raised(loaded)
          THEN /\ server' = "failed"
               /\ embeddings_file' = ensured
               /\ startup' = [pc |-> "done", file_was_missing |-> missing,
                              ensured |-> TRUE, generated |-> missing, loaded |-> FALSE]
               /\ UNCHANGED <<embedded_docs, heap>>
          ELSE /\ server' = "serving"
               /\ embeddings_file' = ensured
               /\ embedded_docs' = loaded.value
               /\ heap' = Rebind(heap, loaded.value)
               /\ startup' = [pc |-> "done", file_was_missing |-> missing,
                              ensured |-> TRUE, generated |-> missing, loaded |-> TRUE]
    /\ UNCHANGED <<metrics, rag, turn, frontend, endpoints, concurrent, loader, reader>>

\* a call of retrieve_top_k(query, k) with an explicit k
RetrieveTopK ==
    /\ server = "serving"
    /\ metrics.rag_queries.total < MaxCalls
    /\ \E embed \in EmbedAnswers, k \in 1..MaxK :
         LET r == retrieve_top_k(embed, k, embedded_docs, metrics)
         IN /\ metrics' = r.metrics
            /\ rag' = [k |-> k, embed |-> embed, docs |-> embedded_docs,
                       outcome |-> r.outcome, logged |-> r.logged, calls |-> 1]
            /\ observed' = ObserveRag(observed, rag')
    /\ turn' = NoTurn
    /\ read' = NoRead
    /\ UNCHANGED <<embeddings_file, server, embedded_docs, frontend, module_metrics,
                   concurrent, storage>>

\* the effect of one POST /ask on the backend, and its record
AskEffect(via, req, embed, llm) ==
    LET step == get_response_from_llm(req, embed, llm, embedded_docs, metrics, rag)
    IN /\ metrics' = step.metrics
       /\ rag' = step.rag
       /\ turn' = [via |-> via, req |-> req, llm |-> llm, handler |-> step.handler,
                   outcome |-> step.outcome,
                   completion_calls |-> step.completion_calls,
                   embedding_calls |-> step.embedding_calls,
                   http |-> ask(step.outcome), before |-> metrics]
       /\ observed' = ObserveRag(observed, step.rag)
       /\ read' = NoRead
       /\ UNCHANGED <<module_metrics, concurrent, storage>>

\* a client posts a collection turn to /ask
AskCollection ==
    /\ server = "serving"
    /\ \E req \in Requests, llm \in CollectionAnswers :
         /\ req.phase = "collection"
         /\ AskEffect("client", req, [ok |-> FALSE, vec |-> <<0, 0>>], llm)
    /\ UNCHANGED <<embeddings_file, server, embedded_docs, frontend>>

\* a client posts a QA turn to /ask
AskQA ==
    /\ server = "serving"
    /\ metrics.rag_queries.total < MaxCalls
    /\ \E req \in Requests, embed \in EmbedAnswers, llm \in QAAnswers :
         /\ req.phase # "collection"
         /\ AskEffect("client", req, embed, llm)
    /\ UNCHANGED <<embeddings_file, server, embedded_docs, frontend>>

\* the frontend posts payload to the backend of this repository: the turn runs
\* there with the hosted answers ext, and the response comes back
Exchange(kind, s, payload, ext) ==
    /\ server = "serving"
    /\ payload.phase # "collection" => metrics.rag_queries.total < MaxCalls
    /\ AskEffect("frontend", payload, ext.embed, ext.llm)
    /\ LET done == handle_bot_response(s, fe_metrics, send_to_backend(turn'.http))
       IN /\ fe' = [kind |-> kind, payload |-> payload, http |-> turn'.http,
                    display |-> done.display]
          /\ IF kind = "greeting"
             THEN \* only the answer is kept, and only on success
                  /\ session' = IF turn'.http.status = 200
                                THEN [s EXCEPT !.history = Append(@, "assistant"),
                                               !.initialized = TRUE]
                                ELSE s
                  /\ UNCHANGED fe_metrics
             ELSE /\ session' = done.session
                  /\ fe_metrics' = done.metrics
    /\ UNCHANGED <<embeddings_file, server, embedded_docs>>

\* the same against whatever serves API_URL: only the response is known
ExchangeAny(kind, s, payload, http) ==
    /\ LET done == handle_bot_response(s, fe_metrics, send_to_backend(http))
       IN /\ fe' = [kind |-> kind, payload |-> payload, http |-> http,
                    display |-> done.display]
          /\ IF kind = "greeting"
             THEN /\ session' = IF http.status = 200
                                THEN [s EXCEPT !.history = Append(@, "assistant"),
                                               !.initialized = TRUE]
                                ELSE s
                  /\ UNCHANGED fe_metrics
             ELSE /\ session' = done.session
                  /\ fe_metrics' = done.metrics
    /\ turn' = NoTurn
    /\ rag' = NoRag
    /\ UNCHANGED <<embeddings_file, server, embedded_docs, metrics, endpoints,
                   concurrent, storage>>

GreetingPayload == Request("collection", NoneStr, NoneStr)

\* handle_initial_greeting, against this repository's backend
handle_initial_greeting ==
    /\ ~session.initialized
    /\ Len(session.history) < MaxHistory
    /\ \E ext \in HostedAnswers("collection") :
         Exchange("greeting", session, GreetingPayload, ext)

\* main's chat input: process_user_input, get_phase_payload, send_to_backend,
\* handle_bot_response, against this repository's backend
UserMessage ==
    /\ Len(session.history) + 2 <= MaxHistory
    /\ LET s == [session EXCEPT !.history = Append(@, "user")]
           payload == get_phase_payload(s)
       IN \E ext \in HostedAnswers(payload.phase) :
            Exchange("message", s, payload, ext)

handle_initial_greeting_any ==
    /\ ~session.initialized
    /\ Len(session.history) < MaxHistory
    /\ \E http \in HttpResponses :
         ExchangeAny("greeting", session, GreetingPayload, http)

UserMessageAny ==
    /\ Len(session.history) + 2 <= MaxHistory
    /\ LET s == [session EXCEPT !.history = Append(@, "user")]
       IN \E http \in HttpResponses :
            ExchangeAny("message", s, get_phase_payload(s), http)

\* GET /metrics: {"metrics": monitoring.metrics, ...}, where monitoring is the
\* module shared.monitoring (from shared import monitoring)
get_metrics ==
    /\ server = "serving"
    /\ read' = IF module_metrics.set
               THEN [op |-> "read", status |-> 200, metrics |-> module_metrics.value]
               ELSE \* AttributeError: module has no attribute metrics
                    [op |-> "read", status |-> 500, metrics |-> InitialMetrics]
    /\ turn' = NoTurn
    /\ rag' = NoRag
    /\ UNCHANGED <<embeddings_file, server, embedded_docs, metrics, frontend,
                   module_metrics, observed, concurrent, storage>>

\* GET /metrics/reset: monitoring.metrics = {...}, an assignment to that module's
\* attribute; the ChatbotMonitoring instance the call paths update is not touched
reset_metrics ==
    /\ server = "serving"
    /\ module_metrics' = Bound(InitialMetrics)
    /\ read' = [op |-> "reset", status |-> 200, metrics |-> InitialMetrics]
    /\ observed' = NothingObserved
    /\ turn' = NoTurn
    /\ rag' = NoRag
    /\ UNCHANGED <<embeddings_file, server, embedded_docs, metrics, frontend,
                   concurrent, storage>>

\* the backend process and its clients
Next ==
    \/ startup_event
    \/ RetrieveTopK
    \/ AskCollection
    \/ AskQA
    \/ get_metrics
    \/ reset_metrics

\* the corpus is as in Init, within MaxSessionDocs passages
InitSession == Init /\ Len(embeddings_file.lines) <= MaxSessionDocs

\* ------------------------------------- requests in flight on the event loop
\* mutant: the handlers are plain def endpoints, run in the thread pool
EventLoopAllows_ThreadPool(t) == TRUE

\* ask, get_metrics and reset_metrics are async def and never suspend (the one
\* await of ask comes after the whole synchronous turn): the event loop runs a
\* handler from its first statement to its last before it starts another
EventLoopAllows(t) == running = 0 \/ running = t

SetTask(t, task) == [tasks EXCEPT ![t] = task]

\* a request arrives: POST /ask with a QA turn, GET /metrics/reset or GET /metrics
RequestArrives(t) ==
    /\ server = "serving"
    /\ tasks[t].pc = "idle"
    /\ \/ \E embed \in EmbedAnswers :
            tasks' = SetTask(t, [NoTask EXCEPT !.kind = "ask", !.pc = "accepted",
                                               !.embed = embed])
       \/ \E kind \in {"reset", "read"} :
            tasks' = SetTask(t, [NoTask EXCEPT !.kind = kind, !.pc = "accepted"])
    /\ UNCHANGED <<backend, frontend, endpoints, running, storage>>

\* the event loop starts the handler.  A QA turn runs retrieve_top_k up to its
\* log_rag_query call (when the retrieval raises before it, the turn is over)
HandlerStarts(t) ==
    /\ tasks[t].pc = "accepted"
    /\ EventLoopAllows(t)
    /\ LET task == tasks[t]
           got == retrieve_top_k(task.embed, top_k_documents, embedded_docs, metrics)
           others == \E u \in Tasks : u # t /\ tasks[u].pc \notin {"idle", "done"}
           failed == task.kind = "ask" /\ got.logged = <<>>
       IN /\ tasks' = SetTask(t,
                [task EXCEPT
                   !.overlapped = others,
                   !.called = (task.kind = "ask" /\ ~failed),
                   !.obs = IF task.kind = "ask" /\ ~failed THEN got.logged[1] ELSE @,
                   !.pc = IF failed THEN "done"
                          ELSE IF task.kind = "ask" THEN "l58_load"
                          ELSE IF task.kind = "reset" THEN "l123"
                          ELSE "l116"])
          /\ running' = IF failed THEN 0 ELSE t
    /\ UNCHANGED <<backend, frontend, endpoints, storage>>

\* log_rag_query: self.metrics["rag_queries"]["total"] += 1, the read
LogTotalLoad(t) ==
    /\ tasks[t].pc = "l58_load"
    /\ EventLoopAllows(t)
    /\ tasks' = SetTask(t, [tasks[t] EXCEPT !.tmp = metrics.rag_queries.total,
                                            !.pc = "l58_store"])
    /\ UNCHANGED <<backend, frontend, endpoints, running, storage>>

\* ... and the write; then `if not found_match`
LogTotalStore(t) ==
    /\ tasks[t].pc = "l58_store"
    /\ EventLoopAllows(t)
    /\ metrics' = [metrics EXCEPT !.rag_queries.total = tasks[t].tmp + 1]
    /\ tasks' = SetTask(t, [tasks[t] EXCEPT
                               !.pc = IF tasks[t].obs.found_match THEN "l63"
                                      ELSE "l60_load"])
    /\ UNCHANGED <<embeddings_file, server, embedded_docs, rag, turn, frontend,
                   endpoints, running, storage>>

\* self.metrics["rag_queries"]["no_matches"] += 1, the read
LogNoMatchLoad(t) ==
    /\ tasks[t].pc = "l60_load"
    /\ EventLoopAllows(t)
    /\ tasks' = SetTask(t, [tasks[t] EXCEPT !.tmp = metrics.rag_queries.no_matches,
                                            !.pc = "l60_store"])
    /\ UNCHANGED <<backend, frontend, endpoints, running, storage>>

\* ... and the write
LogNoMatchStore(t) ==
    /\ tasks[t].pc = "l60_store"
    /\ EventLoopAllows(t)
    /\ metrics' = [metrics EXCEPT !.rag_queries.no_matches = tasks[t].tmp + 1]
    /\ tasks' = SetTask(t, [tasks[t] EXCEPT !.pc = "l63"])
    /\ UNCHANGED <<embeddings_file, server, embedded_docs, rag, turn, frontend,
                   endpoints, running, storage>>

\* prev_avg = self.metrics["rag_queries"]["average_similarity"]
LogPrevAvg(t) ==
    /\ tasks[t].pc = "l63"
    /\ EventLoopAllows(t)
    /\ tasks' = SetTask(t, [tasks[t] EXCEPT
                               !.prev_avg = metrics.rag_queries.average_similarity,
                               !.pc = "l64"])
    /\ UNCHANGED <<backend, frontend, endpoints, running, storage>>

\* n = self.metrics["rag_queries"]["total"]
LogN(t) ==
    /\ tasks[t].pc = "l64"
    /\ EventLoopAllows(t)
    /\ tasks' = SetTask(t, [tasks[t] EXCEPT !.n = metrics.rag_queries.total,
                                            !.pc = "l65"])
    /\ UNCHANGED <<backend, frontend, endpoints, running, storage>>

\* the average is stored; the rest of the turn touches no shared state
LogAverage(t) ==
    /\ tasks[t].pc = "l65"
    /\ EventLoopAllows(t)
    /\ metrics' = [metrics EXCEPT !.rag_queries.average_similarity =
                      RunningAverage(tasks[t].prev_avg, tasks[t].n,
                                     tasks[t].obs.similarity_score)]
    /\ tasks' = SetTask(t, [tasks[t] EXCEPT !.pc = "done"])
    /\ running' = 0
    /\ UNCHANGED <<embeddings_file, server, embedded_docs, rag, turn, frontend,
                   endpoints, storage>>

\* reset_metrics: monitoring.metrics = {...}, one store of a complete new dict
ResetStore(t) ==
    /\ tasks[t].pc = "l123"
    /\ EventLoopAllows(t)
    /\ module_metrics' = Bound(InitialMetrics)
    /\ tasks' = SetTask(t, [tasks[t] EXCEPT !.pc = "done"])
    /\ running' = 0
    /\ UNCHANGED <<backend, frontend, read, observed, storage>>

\* get_metrics: the read of monitoring.metrics
MetricsLoad(t) ==
    /\ tasks[t].pc = "l116"
    /\ EventLoopAllows(t)
    /\ tasks' = SetTask(t, [tasks[t] EXCEPT
            !.response = IF module_metrics.set
                         THEN [op |-> "read", status |-> 200,
                               metrics |-> module_metrics.value]
                         ELSE [op |-> "read", status |-> 500, metrics |-> InitialMetrics],
            !.pc = "done"])
    /\ running' = 0
    /\ UNCHANGED <<backend, frontend, endpoints, storage>>

NextConcurrent ==
    \/ startup_event
    \/ \E t \in Tasks : RequestArrives(t)
    \/ \E t \in Tasks : HandlerStarts(t)
    \/ \E t \in Tasks : LogTotalLoad(t)
    \/ \E t \in Tasks : LogTotalStore(t)
    \/ \E t \in Tasks : LogNoMatchLoad(t)
    \/ \E t \in Tasks : LogNoMatchStore(t)
    \/ \E t \in Tasks : LogPrevAvg(t)
    \/ \E t \in Tasks : LogN(t)
    \/ \E t \in Tasks : LogAverage(t)
    \/ \E t \in Tasks : ResetStore(t)
    \/ \E t \in Tasks : MetricsLoad(t)

\* one corpus: the scores of the queries against it are 1.0, 0.707, -0.707 and NaN
InitConcurrent ==
    Init /\ embeddings_file = FileOf(<<Doc("dental", <<1, 0>>)>>)

SpecConcurrent == InitConcurrent /\ [][NextConcurrent]_vars

\* --------------------------------- load_embeddings and retrieve_top_k, stepwise
\* lines a corpus file may hold: records as generate_embeddings writes them, a
\* line that is no JSON, a record without its embedding, one whose embedding is
\* a string, one whose embedding has another length
StoreLinePool ==
    { Line(Doc("dental", <<1, 0>>)), Line(Doc("optometry", <<0, 1>>)),
      InvalidJsonLine,
      Line(Record({"domain", "text"}, "alternative", <<>>, FALSE)),
      Line(Record(AllFields, "alternative", <<>>, FALSE)),
      Line(Record(AllFields, "alternative", <<1, 0, 0>>, TRUE)) }
\* the file found at startup
StoreFiles ==
    {MissingFile} \cup
    {[exists |-> TRUE, lines |-> l] :
        l \in UNION {[1..n -> StoreLinePool] : n \in 0..MaxStartLines}}
\* the file a later load finds: gone, or rewritten, possibly cut off mid-line
ReloadLinePool ==
    { Line(Doc("dental", <<1, 0>>)), Line(Doc("optometry", <<0, 1>>)), InvalidJsonLine }
ReloadFiles ==
    {MissingFile} \cup
    {[exists |-> TRUE, lines |-> l] :
        l \in UNION {[1..n -> ReloadLinePool] : n \in 0..MaxLines}}

InitStore == InitWith(StoreFiles)

\* mutant: the global is cleared and filled in place,
\* embedded_docs = []; for line in f: embedded_docs.append(json.loads(line))
StoreWhileLoading_InPlace(bound, target) == target

\* the list embedded_docs names while the comprehension is still being built:
\* the assignment binds the name only after the whole list is there
StoreWhileLoading(bound, target) == bound

Latest(h) == h.versions[Len(h.versions)]

\* load_embeddings is called once more while the process serves, the corpus
\* file now being file: open(config.embeddings_file), and the new list is begun
LoadOpen ==
    /\ server = "serving"
    /\ loader.pc = "idle"
    /\ \E file \in ReloadFiles :
         /\ embeddings_file' = file
         /\ IF ~file.exists
            THEN /\ loader' = [loader EXCEPT !.pc = "raised",
                                             !.error = "FileNotFoundError",
                                             !.previous = Latest(heap)]
                 /\ UNCHANGED <<heap, embedded_docs>>
            ELSE LET target == Len(heap.lists) + 1
                     now == StoreWhileLoading(heap.bound, target)
                     lists == Append(heap.lists, <<>>)
                 IN /\ heap' = [heap EXCEPT !.lists = lists, !.bound = now]
                    /\ embedded_docs' = lists[now]
                    /\ loader' = [loader EXCEPT !.pc = "read", !.error = "none",
                                                !.target = target, !.pos = 1,
                                                !.previous = Latest(heap)]
    /\ UNCHANGED <<server, metrics, rag, turn, frontend, endpoints, concurrent,
                   reader, startup>>

\* one iteration of [json.loads(line) for line in f]
LoadLine ==
    /\ loader.pc = "read"
    /\ loader.pos <= Len(embeddings_file.lines)
    /\ LET line == embeddings_file.lines[loader.pos]
       IN IF ~line.json_ok
          THEN \* json.loads raises; the except clause logs and re-raises
               /\ loader' = [loader EXCEPT !.pc = "raised", !.error = "JSONDecodeError"]
               /\ UNCHANGED <<heap, embedded_docs>>
          ELSE /\ heap' = [heap EXCEPT !.lists[loader.target] = Append(@, line.record)]
               /\ embedded_docs' = heap'.lists[heap.bound]
               /\ loader' = [loader EXCEPT !.pos = @ + 1]
    /\ UNCHANGED <<embeddings_file, server, metrics, rag, turn, frontend, endpoints,
                   concurrent, reader, startup>>

\* the file is exhausted: embedded_docs = <the list>
LoadBind ==
    /\ loader.pc = "read"
    /\ loader.pos > Len(embeddings_file.lines)
    /\ heap' = [heap EXCEPT !.bound = loader.target,
                            !.versions = Append(@, heap.lists[loader.target])]
    /\ embedded_docs' = heap.lists[loader.target]
    /\ loader' = [loader EXCEPT !.pc = "done"]
    /\ UNCHANGED <<embeddings_file, server, metrics, rag, turn, frontend, endpoints,
                   concurrent, reader, startup>>

\* retrieve_top_k begins: embed_text, then the comprehension takes an iterator
\* over the list embedded_docs names now
ReadBegin ==
    /\ server = "serving"
    /\ reader.pc \in {"idle", "done"}
    /\ metrics.rag_queries.total < MaxCalls
    /\ \E embed \in EmbedAnswers :
         reader' = IF ~embed.ok
                   THEN [NoReader EXCEPT !.pc = "done", !.embed = embed,
                                         !.outcome = Raise("EmbeddingError")]
                   ELSE [NoReader EXCEPT !.pc = "iter", !.embed = embed,
                                         !.list = heap.bound, !.idx = 1,
                                         !.since = Len(heap.versions),
                                         !.overlapped = (loader.pc = "read")]
    /\ UNCHANGED <<backend, frontend, endpoints, concurrent, heap, loader, startup>>

\* one iteration of the scoring comprehension over that list object, or, when
\* the iterator is exhausted, the rest of retrieve_top_k on what was scored
ReadNext ==
    /\ reader.pc = "iter"
    /\ LET list == heap.lists[reader.list]
       IN IF reader.idx <= Len(list)
          THEN LET doc == list[reader.idx]
                   error == ScoreError(reader.embed.vec, doc)
               IN /\ reader' = IF error # "none"
                               THEN [reader EXCEPT !.pc = "done",
                                                   !.outcome = Raise(error)]
                               ELSE [reader EXCEPT
                                       !.seen = Append(@, doc), !.idx = @ + 1,
                                       !.overlapped = @ \/ loader.pc = "read"]
                  /\ UNCHANGED <<metrics, observed>>
          ELSE LET got == retrieve_top_k(reader.embed, top_k_documents,
                                         reader.seen, metrics)
               IN /\ reader' = [reader EXCEPT !.pc = "done", !.exhausted = TRUE,
                                              !.outcome = got.outcome]
                  /\ metrics' = got.metrics
                  /\ observed' = ObserveRag(observed,
                                     [calls |-> 1, outcome |-> got.outcome,
                                      logged |-> got.logged])
    /\ UNCHANGED <<embeddings_file, server, embedded_docs, rag, turn, frontend,
                   module_metrics, read, concurrent, heap, loader, startup>>

NextStore ==
    \/ startup_event
    \/ LoadOpen
    \/ LoadLine
    \/ LoadBind
    \/ ReadBegin
    \/ ReadNext

SpecStore == InitStore /\ [][NextStore]_vars

\* the frontend session, against this repository's backend and against any
\* server at API_URL
NextSession ==
    \/ startup_event
    \/ handle_initial_greeting
    \/ UserMessage
    \/ handle_initial_greeting_any
    \/ UserMessageAny

SpecSession == InitSession /\ [][NextSession]_vars

Spec == Init /\ [][Next]_vars

\* ================================================================== claims
TurnDone == turn.via # "none"
Returned == TurnDone /\ ~Raised(turn.outcome)
Result == turn.outcome.value
\* the result carries phase_transition = true together with a user_info record
HasTransition(result) ==
    /\ "phase_transition" \in DOMAIN result
    /\ result.phase_transition = TRUE
    /\ "user_info" \in DOMAIN result
\* the result has phase_transition false (or absent) and no user_info
NoTransition(result) ==
    /\ "phase_transition" \in DOMAIN result => result.phase_transition = FALSE
    /\ "user_info" \notin DOMAIN result
CompletionCall ==
    /\ turn.llm.ok
    /\ turn.llm.function_call.present
    /\ turn.llm.function_call.name = "complete_data_collection"
Parsed == json_loads(turn.llm.function_call.arguments)
\* the structured payload is a schema-valid ProfileRecord
PayloadValid == ~Raised(Parsed) /\ SchemaValid(Parsed.value)

\* C1 (as claimed): a turn's result carries phase_transition = true and a
\* user_info record exactly when it is a collection turn whose completion call
\* carries an accepted (schema-valid) payload, user_info is then that eight-field
\* payload, and every other returned result has no transition and no user_info.
C1_TransitionIffCompleted ==
    Returned =>
        /\ HasTransition(Result) <=>
              (turn.req.phase = "collection" /\ CompletionCall /\ PayloadValid)
        /\ HasTransition(Result) =>
              /\ DOMAIN Result.user_info = RequiredFields
              /\ Result.user_info = Parsed.value.dict
        /\ ~HasTransition(Result) => NoTransition(Result)

\* C2 (as claimed): when the collection turn of a user message returns
\* phase_transition = true with a user_info record (as the backend's result, or
\* in the response the frontend receives), the session has current_phase = qa
\* and that record as user_info.
C2_SessionPersistsTransition ==
    /\ (fe.kind = "message" /\ turn.via = "frontend" /\ Returned /\ HasTransition(Result)) =>
           /\ session.current_phase = "qa"
           /\ session.user_info = Result.user_info
    /\ (/\ fe.kind = "message" /\ fe.payload.phase = "collection"
        /\ fe.http.status = 200
        /\ fe.http.body.phase_transition /\ fe.http.body.user_info_set) =>
           /\ session.current_phase = "qa"
           /\ session.user_info = fe.http.body.user_info

\* a turn processed in phase qa ran the QA logic and returned no transition
QATurnAnswers ==
    (TurnDone /\ turn.req.phase = "qa") =>
        /\ turn.handler = "qa"
        /\ Returned => NoTransition(Result)
\* a session in phase qa stays in it, and what it sends next is a qa turn
\* with the profile's hmo and tier
SessionStaysQA ==
    session.current_phase = "qa" =>
        /\ session'.current_phase = "qa"
        /\ session'.user_info = session.user_info
        /\ (fe' # fe /\ fe'.kind = "message") =>
               fe'.payload = Request("qa", DictGet(session.user_info, "hmo", ""),
                                     DictGet(session.user_info, "tier", ""))

\* C3: Answering is absorbing.  Once the session's phase is qa it stays qa and
\* every later message is sent as a qa turn; and no turn the backend processes
\* in phase qa runs the collection logic or returns phase_transition = true.
C3_AnsweringAbsorbing == [](QATurnAnswers) /\ [][SessionStaysQA]_vars

\* a session that went to qa, whose next message the backend answered as a QA turn
C3_Witness ==
    /\ session.current_phase = "qa"
    /\ fe.kind = "message" /\ turn.via = "frontend"
    /\ turn.req.phase = "qa" /\ turn.handler = "qa" /\ Returned

\* C4 (as claimed): when get_response_from_llm returns, /ask answers 200 with
\* the record {answer, phase_transition, user_info} of that result, and /ask
\* answers an error only when get_response_from_llm raised.
C4_AskDeliversResult ==
    TurnDone =>
        /\ Returned =>
              /\ turn.http.status = 200
              /\ turn.http.body.answer = Result.answer
              /\ turn.http.body.phase_transition = HasTransition(Result)
              /\ turn.http.body.user_info_set = ("user_info" \in DOMAIN Result)
        /\ turn.http.status # 200 => Raised(turn.outcome)

\* the scores of the operation's retrieve_top_k call, computed from its inputs
RagCalled == rag.calls = 1
RagScored == RagCalled /\ rag.embed.ok /\ Len(rag.docs) > 0
RagScore(i) == cosine_similarity(rag.embed.vec, rag.docs[i].embedding)
RagRelevant == {i \in DOMAIN rag.docs : Ge(RagScore(i), MIN_SIMILARITY_THRESHOLD)}

\* C5: in a QA turn in which no passage scores at or above the threshold the
\* retriever applies, the completion capability is never called, and the turn
\* (whenever the passages could be scored at all) returns exactly the fixed
\* no-match message as its answer.
C5_NoMatchShortCircuit ==
    (TurnDone /\ turn.handler = "qa" /\ rag.embed.ok /\ RagRelevant = {}) =>
        /\ turn.completion_calls = 0
        /\ RagScored => Returned
        /\ Returned => Result = [answer |-> NO_MATCH_MESSAGE]

C5_Witness ==
    /\ TurnDone /\ turn.handler = "qa" /\ RagScored /\ RagRelevant = {}
    /\ Returned /\ Result.answer = NO_MATCH_MESSAGE
    /\ \E i \in DOMAIN rag.docs : ~IsNaN(RagScore(i))

\* i ranks before j: a greater score, or an equal score and an earlier corpus position
RanksBefore(i, j) ==
    \/ RagScore(i) > RagScore(j)
    \/ RagScore(i) = RagScore(j) /\ i < j
Min(a, b) == IF a < b THEN a ELSE b

\* C6: when at least one passage scores at or above the threshold,
\* retrieve_top_k returns min(k, number of relevant passages) passages, each a
\* relevant passage with its score, in rank order (non-increasing score, ties
\* in corpus order), and every relevant passage left out ranks after every
\* returned one.
C6_TopKOrdered ==
    (RagScored /\ RagRelevant # {}) =>
        /\ ~Raised(rag.outcome)
        /\ LET result == rag.outcome.value
               n == Min(rag.k, Cardinality(RagRelevant))
           IN /\ Len(result) = n
              /\ \E f \in [1..n -> RagRelevant] :
                    /\ \A j \in 1..n :
                          result[j] = [domain |-> rag.docs[f[j]].domain,
                                       text |-> rag.docs[f[j]].text,
                                       score |-> RagScore(f[j])]
                    /\ \A j1, j2 \in 1..n : j1 < j2 => RanksBefore(f[j1], f[j2])
                    /\ \A i \in RagRelevant :
                          (\A j \in 1..n : f[j] # i) =>
                              \A j \in 1..n : RanksBefore(f[j], i)

\* a call that had to reorder, to break a tie and to cut at k
C6_Witness ==
    /\ RagScored /\ ~Raised(rag.outcome)
    /\ Cardinality(RagRelevant) > rag.k
    /\ \E i, j \in RagRelevant : i < j /\ RagScore(i) = RagScore(j)
    /\ rag.outcome.value[1].domain = rag.docs[1].domain

\* C7 (as claimed): the filter applies the configured similarity_threshold
\* (0.75): a scored query none of whose similarities reaches it yields NoMatch.
C7_ConfiguredThresholdApplies ==
    (RagScored /\ \A i \in DOMAIN rag.docs : ~Ge(RagScore(i), similarity_threshold)) =>
        /\ ~Raised(rag.outcome)
        /\ rag.outcome.value = NoMatchResult

IsZeroVector(v) == Dot(v, v) = 0

\* C8 (as claimed): a retrieve_top_k call whose query embedding or one of whose
\* passage embeddings is the zero vector raises, and logs no observation.
C8_ZeroVectorFails ==
    (/\ RagCalled /\ rag.embed.ok
     /\ \/ IsZeroVector(rag.embed.vec)
        \/ \E i \in DOMAIN rag.docs : IsZeroVector(rag.docs[i].embedding)) =>
        /\ Raised(rag.outcome)
        /\ rag.logged = <<>>

\* C9 (as claimed): a collection turn whose completion call carries a payload
\* that is no schema-valid ProfileRecord returns the fixed error answer with
\* phase_transition false and no user_info, and raises nothing.
C9_InvalidPayloadExtractionFailed ==
    (TurnDone /\ turn.handler = "collection" /\ CompletionCall /\ ~PayloadValid) =>
        /\ Returned
        /\ Result.answer = EXTRACTION_ERROR_MESSAGE
        /\ NoTransition(Result)

PayloadLanguage == DictGet(Result.user_info, "preferred_language", "absent")

\* C10 (as claimed): on a Completed outcome the answer is the fixed
\* confirmation string chosen by the payload's preferred_language.
C10_AnswerIsFixedConfirmation ==
    (Returned /\ HasTransition(Result)) =>
        Result.answer = IF PayloadLanguage = "en"
                        THEN SUCCESS_MESSAGE_EN ELSE SUCCESS_MESSAGE_HE

\* C10 (amended): on a Completed outcome the answer is the model's own message
\* text when it is non-empty, and otherwise the fixed confirmation string chosen
\* by the payload's preferred_language: English for "en", Hebrew otherwise.
C10_AnswerIsContentOrConfirmation ==
    (Returned /\ HasTransition(Result)) =>
        Result.answer = IF turn.llm.content # None /\ turn.llm.content # EmptyStr
                        THEN turn.llm.content
                        ELSE IF PayloadLanguage = "en"
                             THEN SUCCESS_MESSAGE_EN ELSE SUCCESS_MESSAGE_HE

C10_Witness ==
    /\ Returned /\ HasTransition(Result)
    /\ turn.llm.content = None
    /\ PayloadLanguage = "en"
    /\ Result.answer = SUCCESS_MESSAGE_EN

\* C11: no hosted call is retried.  A collection turn makes exactly one
\* completion call and no embedding call; a QA turn makes exactly one embedding
\* call and at most one completion call; when the embedding call or the
\* completion call fails, the turn raises that failure, makes no further hosted
\* call, and /ask answers an error with no answer.
C11_NoRetry ==
    TurnDone =>
        /\ turn.handler = "collection" =>
              turn.completion_calls = 1 /\ turn.embedding_calls = 0
        /\ turn.handler = "qa" =>
              turn.embedding_calls = 1 /\ turn.completion_calls \in {0, 1}
        /\ (turn.handler = "qa" /\ ~rag.embed.ok) =>
              /\ turn.outcome = Raise("EmbeddingError")
              /\ turn.completion_calls = 0
              /\ turn.http.status = 500 /\ turn.http.body.answer = None
        /\ (turn.completion_calls >= 1 /\ ~turn.llm.ok) =>
              /\ turn.outcome = Raise("LLMCallError")
              /\ turn.completion_calls = 1
              /\ turn.http.status = 500 /\ turn.http.body.answer = None

\* a QA turn that found a match and whose completion call then failed
C11_Witness ==
    /\ TurnDone /\ turn.handler = "qa" /\ RagRelevant # {}
    /\ turn.embedding_calls = 1 /\ turn.completion_calls = 1
    /\ ~turn.llm.ok /\ turn.outcome = Raise("LLMCallError")

\* C12 (as claimed): since the last reset, rag_queries.total is the number of
\* retrieve_top_k calls that produced a result and rag_queries.no_matches the
\* number of those that returned NoMatch.
C12_OneObservationPerResult ==
    /\ metrics.rag_queries.total = observed.rag_results
    /\ metrics.rag_queries.no_matches = observed.rag_no_match

LlmCallsLogged(m) == m.llm_calls.success + m.llm_calls.failed
FailuresLogged(m) ==
    m.llm_calls.failed + m.conversation.collection_phase.failed
        + m.conversation.qa_phase.failed

\* C13 (as claimed): a turn's completion call adds one to llm_calls.success or
\* llm_calls.failed, and a turn that fails has added a failure outcome to the
\* aggregator by the time the error reaches the caller.
C13_EveryPathReports ==
    TurnDone =>
        /\ LlmCallsLogged(metrics) = LlmCallsLogged(turn.before) + turn.completion_calls
        /\ Raised(turn.outcome) => FailuresLogged(metrics) > FailuresLogged(turn.before)

\* the turns that called log_rag_query, and those whose handler is running
Logged == {t \in Tasks : tasks[t].called}
Quiescent == \A t \in Tasks : tasks[t].pc \in {"idle", "accepted", "done"}
RECURSIVE ApplyInOrder(_, _, _)
\* the metrics after the log_rag_query calls of the tasks of order, one after the other
ApplyInOrder(m, order, i) ==
    IF i > Len(order) THEN m
    ELSE ApplyInOrder(log_rag_query(m, tasks[order[i]].obs.similarity_score,
                                    tasks[order[i]].obs.found_match),
                      order, i + 1)
Orders == {o \in [1..Cardinality(Logged) -> Logged] : Injective(o)}

\* C14: whatever the arrival order of concurrent requests, once no handler is
\* in the middle of an update rag_queries.total is the number of log_rag_query
\* calls, no_matches the number of those without a match, the aggregate is what
\* those calls give one after the other in some order, llm_calls.success +
\* llm_calls.failed is the number of log_llm_call calls (there is none), and a
\* reset never leaves partly zeroed counters: what monitoring.metrics names and
\* what GET /metrics returns is the complete zero structure, or nothing.
C14_UpdatesAtomic ==
    /\ Quiescent =>
          /\ metrics.rag_queries.total = Cardinality(Logged)
          /\ metrics.rag_queries.no_matches =
                 Cardinality({t \in Logged : ~tasks[t].obs.found_match})
          /\ \E o \in Orders : metrics = ApplyInOrder(InitialMetrics, o, 1)
          /\ LlmCallsLogged(metrics) = 0
    /\ module_metrics \in {Unset, Bound(InitialMetrics)}
    /\ \A t \in Tasks : tasks[t].response.metrics = InitialMetrics

\* QA turns that were in flight at once, all logged, one of them without a match
C14_Witness ==
    /\ \A t \in Tasks : tasks[t].pc = "done"
    /\ Cardinality(Logged) >= 2
    /\ \E t \in Logged : tasks[t].overlapped
    /\ \E t \in Logged : ~tasks[t].obs.found_match
    /\ metrics.rag_queries.total >= 2

\* C15 (as claimed): GET /metrics succeeds and returns the current values of
\* the aggregates the call paths update, which are the observations recorded
\* since the last reset; right after GET /metrics/reset those aggregates are zero.
C15_ReadShowsCurrentAggregates ==
    /\ read.op = "read" =>
          /\ read.status = 200
          /\ read.metrics = metrics
          /\ read.metrics.rag_queries.total = observed.rag_results
    /\ read.op = "reset" => metrics = InitialMetrics

IsPrefix(a, b) == Len(a) <= Len(b) /\ a = SubSeq(b, 1, Len(a))
\* the complete stores embedded_docs named at some moment of the reader's call
ReaderVersions == {heap.versions[i] : i \in reader.since..Len(heap.versions)}

\* C16: the list embedded_docs names is at every moment a completely loaded
\* store; a load that fails leaves the previous store, a load that succeeds has
\* put the whole file there; and a retrieve_top_k call that overlaps a load
\* scores a prefix of, and in the end exactly, the store as it was before the
\* load or the completely loaded new one.
C16_LoadAtomic ==
    /\ heap.lists[heap.bound] = Latest(heap)
    /\ embedded_docs = Latest(heap)
    /\ loader.pc \in {"read", "raised"} => Latest(heap) = loader.previous
    /\ loader.pc = "done" =>
          /\ ~Raised(load_embeddings(embeddings_file))
          /\ Latest(heap) = load_embeddings(embeddings_file).value
    /\ reader.pc = "iter" => \E v \in ReaderVersions : IsPrefix(reader.seen, v)
    /\ reader.exhausted => reader.seen \in ReaderVersions

\* a retrieval that began while a load was reading the file, ended after the
\* load had replaced the store, and scored the whole previous store
C16_Witness ==
    /\ reader.exhausted /\ reader.overlapped
    /\ loader.pc = "done"
    /\ Len(reader.seen) >= 1
    /\ reader.seen = loader.previous
    /\ Latest(heap) # loader.previous
    /\ Len(heap.versions) > reader.since

WellFormedRecord(r) ==
    r.has = AllFields /\ r.numeric /\ Len(r.embedding) > 0
SameDimension(docs) ==
    \A i, j \in DOMAIN docs : Len(docs[i].embedding) = Len(docs[j].embedding)

\* C17 (as claimed): the process serves, and a load completes, only with a
\* store all of whose records have domain, text and a numeric embedding of one
\* common length; a missing file or a malformed record makes the load fail.
C17_MalformedNeverLoaded ==
    /\ \A i \in DOMAIN embedded_docs : WellFormedRecord(embedded_docs[i])
    /\ SameDimension(embedded_docs)
    /\ \A i \in DOMAIN reader.seen : WellFormedRecord(reader.seen[i])
    /\ (server = "serving" /\ loader.pc = "idle") =>
          /\ embeddings_file.exists
          /\ \A i \in DOMAIN embeddings_file.lines :
                /\ embeddings_file.lines[i].json_ok
                /\ WellFormedRecord(embeddings_file.lines[i].record)

RECURSIVE SumFrom(_, _)
SumFrom(scores, i) == IF i > Len(scores) THEN 0 ELSE scores[i] + SumFrom(scores, i + 1)

\* C18 (as claimed): average_similarity is the mean of the scores recorded since
\* construction or the last reset: average_similarity * total = their sum (a
\* NaN score among them makes the mean NaN).
C18_AverageIsMean ==
    LET avg == metrics.rag_queries.average_similarity
        scores == observed.scores
    IN IF \E i \in DOMAIN scores : IsNaN(scores[i]) THEN FracIsNaN(avg)
       ELSE /\ ~FracIsNaN(avg)
            /\ avg.num * metrics.rag_queries.total = SumFrom(scores, 1) * avg.den

\* C19 (as claimed): a startup that finds no embeddings file reaches
\* ensure_embeddings, which generates the file, then load_embeddings, and the
\* backend serves.
C19_MissingFileIsGenerated ==
    (startup.pc = "done" /\ startup.file_was_missing) =>
        /\ startup.ensured /\ startup.generated /\ startup.loaded
        /\ embeddings_file.exists
        /\ server = "serving"

\* C20 (as claimed): when retrieve_top_k returns a match, the matched_domains
\* it logged are the domains of the passages it returned, in the same order.
C20_LoggedDomainsAreReturned ==
    (RagScored /\ ~Raised(rag.outcome) /\ RagRelevant # {}) =>
        /\ Len(rag.logged) = 1
        /\ rag.logged[1].matched_domains = Domains(rag.outcome.value)


====
